---- MODULE Spec2Model ----
(***************************************************************************)
(* Model of the chat / reveal pipeline of the DataAnalysisInterface        *)
(* component (src/src/components/data-analysis-interface.tsx) together     *)
(* with parseChartDataFromResponse (data-visualization) and the api        *)
(* service.  Texts are sequences of one-character strings so that the      *)
(* regular-expression rewrites and the chunked reveal act on characters.   *)
(***************************************************************************)
EXTENDS Integers, Sequences, FiniteSets, TLC

(***************************************************************************)
(* Bounds of the model                                                     *)
(***************************************************************************)
\* number of sendMessage invocations that get past the guard
MaxSends == 2
\* largest display text, in characters, the reveal specification draws
MaxLen == 7
\* largest store the store specification draws
MaxStore == 2
\* largest number of pieces a raw reply of the parse specification is made of
MaxPieces == 3

(***************************************************************************)
(* Optional fields of a Message: absent is <<>>, present is <<v>>          *)
(***************************************************************************)
None == <<>>
Some(v) == <<v>>

(***************************************************************************)
(* Characters and string helpers                                           *)
(***************************************************************************)
NL == "\n"
WhiteSpace == {" ", NL, "\t"}

Min(a, b) == IF a < b THEN a ELSE b

\* String.prototype.substring(from, to) with 0-based, end-exclusive indices
Substring(s, from, to) == SubSeq(s, from + 1, to)

\* does pattern p occur in s at 1-based position i
StartsAt(s, p, i) ==
    /\ i >= 1
    /\ i + Len(p) - 1 <= Len(s)
    /\ SubSeq(s, i, i + Len(p) - 1) = p

\* smallest position >= i where p occurs in s, or 0
IndexFrom(s, p, i) ==
    LET hits == {j \in i..(Len(s) - Len(p) + 1) : StartsAt(s, p, j)} IN
    IF hits = {} THEN 0
    ELSE CHOOSE j \in hits : \A k \in hits : j <= k

\* number of leading characters of s, from position i on, that are in set cs
RunLen(s, cs, i) ==
    LET stops == {j \in i..Len(s) : s[j] \notin cs} IN
    IF i > Len(s) THEN 0
    ELSE IF stops = {} THEN Len(s) - i + 1
    ELSE (CHOOSE j \in stops : \A k \in stops : j <= k) - i

\* String.prototype.trim
TrimLeft(s) == SubSeq(s, 1 + RunLen(s, WhiteSpace, 1), Len(s))

TrimRight(s) ==
    LET kept == {j \in 1..Len(s) : s[j] \notin WhiteSpace} IN
    IF kept = {} THEN <<>>
    ELSE SubSeq(s, 1, CHOOSE j \in kept : \A k \in kept : j >= k)

Trim(s) == TrimRight(TrimLeft(s))

(***************************************************************************)
(* The chart-data fence                                                    *)
(***************************************************************************)
\* the grave accent (U+0060) is written "^": TLA+ strings cannot hold it
Grave == "^"
Fence == <<Grave, Grave, Grave>>
ChartOpen == Fence \o <<"c", "h", "a", "r", "t", "-", "d", "a", "t", "a", NL>>
ChartClose == <<NL>> \o Fence
Rule == <<"-", "-", "-">>

\* largest position >= i where p occurs in s, or 0
RECURSIVE LastIndexFrom(_, _, _)
LastIndexFrom(s, p, i) ==
    LET n == IndexFrom(s, p, i) IN
    IF n = 0 THEN 0
    ELSE LET m == LastIndexFrom(s, p, n + 1) IN IF m = 0 THEN n ELSE m

\* the matches of the expression with a greedy body: the body runs to the
\* last closing fence of the text
ChartMatchesGreedy(s, i) ==
    LET o == IndexFrom(s, ChartOpen, i) IN
    IF o = 0 THEN <<>>
    ELSE LET b == o + Len(ChartOpen)
             c == LastIndexFrom(s, ChartClose, b) IN
         IF c = 0 THEN <<>>
         ELSE <<[from |-> o, to |-> c + Len(ChartClose) - 1,
                 body |-> SubSeq(s, b, c - 1)]>>

\* The matches of the chart-data regular expression (fence, chart-data,
\* line break, lazy body, line break, fence) in s from position i on:
\* a sequence of records [from, to, body] (1-based, inclusive), the body lazy
RECURSIVE ChartMatches(_, _)
ChartMatches(s, i) ==
    LET o == IndexFrom(s, ChartOpen, i) IN
    IF o = 0 THEN <<>>
    ELSE LET b == o + Len(ChartOpen)
             c == IndexFrom(s, ChartClose, b) IN
         IF c = 0 THEN <<>>
         ELSE <<[from |-> o, to |-> c + Len(ChartClose) - 1,
                 body |-> SubSeq(s, b, c - 1)]>>
              \o ChartMatches(s, c + Len(ChartClose))

\* content.replace(chart-data block, empty string)
RECURSIVE RemoveChartBlocks(_, _)
RemoveChartBlocks(s, i) ==
    LET o == IndexFrom(s, ChartOpen, i) IN
    IF o = 0 THEN SubSeq(s, i, Len(s))
    ELSE LET c == IndexFrom(s, ChartClose, o + Len(ChartOpen)) IN
         IF c = 0 THEN SubSeq(s, i, Len(s))
         ELSE SubSeq(s, i, o - 1) \o RemoveChartBlocks(s, c + Len(ChartClose))

\* cleanedContent.replace(fence, white space, fence -> empty string)
RECURSIVE RemoveEmptyBlocks(_, _)
RemoveEmptyBlocks(s, i) ==
    LET hits == {j \in i..Len(s) :
                    /\ StartsAt(s, Fence, j)
                    /\ StartsAt(s, Fence,
                                j + 3 + RunLen(s, WhiteSpace, j + 3))} IN
    IF hits = {} THEN SubSeq(s, i, Len(s))
    ELSE LET j == CHOOSE h \in hits : \A k \in hits : h <= k IN
         SubSeq(s, i, j - 1)
            \o RemoveEmptyBlocks(s, j + 6 + RunLen(s, WhiteSpace, j + 3))

\* .replace(three or more line breaks -> two line breaks)
RECURSIVE CollapseBreaks(_, _)
CollapseBreaks(s, i) ==
    LET hits == {j \in i..Len(s) : RunLen(s, {NL}, j) >= 3} IN
    IF hits = {} THEN SubSeq(s, i, Len(s))
    ELSE LET j == CHOOSE h \in hits : \A k \in hits : h <= k IN
         SubSeq(s, i, j - 1) \o <<NL, NL>>
            \o CollapseBreaks(s, j + RunLen(s, {NL}, j))

\* position of the last line break in s[from..to], or 0
LastBreak(s, from, to) ==
    LET breaks == {k \in from..to : s[k] = NL} IN
    IF breaks = {} THEN 0
    ELSE CHOOSE j \in breaks : \A k \in breaks : j >= k

\* number of line breaks in s[from..to]
CountBreaks(s, from, to) == Cardinality({k \in from..to : s[k] = NL})

\* .replace(rule, white space holding two line breaks -> rule and one
\* line break): the greedy match runs to the last
\* line break of the white space that follows the rule
RECURSIVE CleanRules(_, _)
CleanRules(s, i) ==
    LET hits == {j \in i..Len(s) :
                    /\ StartsAt(s, Rule, j)
                    /\ CountBreaks(s, j + 3,
                            j + 2 + RunLen(s, WhiteSpace, j + 3)) >= 2} IN
    IF hits = {} THEN SubSeq(s, i, Len(s))
    ELSE LET j == CHOOSE h \in hits : \A k \in hits : h <= k
             w == RunLen(s, WhiteSpace, j + 3)
             e == LastBreak(s, j + 3, j + 2 + w) IN
         SubSeq(s, i, j - 1) \o Rule \o <<NL>> \o CleanRules(s, e + 1)

\* formatAIResponse
formatAIResponse(content) ==
    LET cleanedContent == RemoveChartBlocks(content, 1)
        noEmptyBlocks == RemoveEmptyBlocks(cleanedContent, 1)
    IN Trim(CleanRules(CollapseBreaks(noEmptyBlocks, 1), 1))

(***************************************************************************)
(* JSON.parse on the bodies the modelled backend can send: a body that is  *)
(* one of the known documents parses to its value, any other body throws   *)
(***************************************************************************)
Q == "\""
BarDoc == <<"{", Q, "t", "y", "p", "e", Q, ":", Q, "b", "a", "r", Q, "}">>
BarChart == [type |-> "bar"]
BadDoc == <<"{", "b", "a", "r">>
LineDoc == <<"{", Q, "t", "y", "p", "e", Q, ":", Q, "l", "i", "n", "e", Q, "}">>
LineChart == [type |-> "line"]

\* documents with labels and datasets: a bar chart whose one series has a
\* value per label, one whose series is a value short, and a line chart
\* without series
FullDoc ==
    <<"{", Q, "t", "y", "p", "e", Q, ":", Q, "b", "a", "r", Q, ",", Q, "l",
      "a", "b", "e", "l", "s", Q, ":", "[", Q, "a", Q, ",", Q, "b", Q, "]",
      ",", Q, "d", "a", "t", "a", "s", "e", "t", "s", Q, ":", "[", "{", Q,
      "d", "a", "t", "a", Q, ":", "[", "1", ",", "2", "]", "}", "]", "}">>
FullChart ==
    [type |-> "bar", labels |-> <<"a", "b">>,
     datasets |-> <<[data |-> <<1, 2>>]>>]
ShortDoc ==
    <<"{", Q, "t", "y", "p", "e", Q, ":", Q, "b", "a", "r", Q, ",", Q, "l",
      "a", "b", "e", "l", "s", Q, ":", "[", Q, "a", Q, ",", Q, "b", Q, "]",
      ",", Q, "d", "a", "t", "a", "s", "e", "t", "s", Q, ":", "[", "{", Q,
      "d", "a", "t", "a", Q, ":", "[", "1", "]", "}", "]", "}">>
ShortChart ==
    [type |-> "bar", labels |-> <<"a", "b">>,
     datasets |-> <<[data |-> <<1>>]>>]
NoSeriesDoc ==
    <<"{", Q, "t", "y", "p", "e", Q, ":", Q, "l", "i", "n", "e", Q, ",", Q,
      "l", "a", "b", "e", "l", "s", Q, ":", "[", Q, "a", Q, "]", ",", Q,
      "d", "a", "t", "a", "s", "e", "t", "s", Q, ":", "[", "]", "}">>
NoSeriesChart == [type |-> "line", labels |-> <<"a">>, datasets |-> <<>>]
\* a scatter chart: its series holds points and there are no labels
ScatterDoc ==
    <<"{", Q, "t", "y", "p", "e", Q, ":", Q, "s", "c", "a", "t", "t", "e",
      "r", Q, ",", Q, "l", "a", "b", "e", "l", "s", Q, ":", "[", "]", ",",
      Q, "d", "a", "t", "a", "s", "e", "t", "s", Q, ":", "[", "{", Q, "d",
      "a", "t", "a", Q, ":", "[", "{", Q, "x", Q, ":", "1", ",", Q, "y", Q,
      ":", "2", "}", "]", "}", "]", "}">>
ScatterChart ==
    [type |-> "scatter", labels |-> <<>>,
     datasets |-> <<[data |-> <<[x |-> 1, y |-> 2]>>]>>]

JSONParse(body) ==
    IF body = BarDoc THEN [ok |-> TRUE, value |-> BarChart]
    ELSE IF body = LineDoc THEN [ok |-> TRUE, value |-> LineChart]
    ELSE IF body = FullDoc THEN [ok |-> TRUE, value |-> FullChart]
    ELSE IF body = ShortDoc THEN [ok |-> TRUE, value |-> ShortChart]
    ELSE IF body = NoSeriesDoc THEN [ok |-> TRUE, value |-> NoSeriesChart]
    ELSE IF body = ScatterDoc THEN [ok |-> TRUE, value |-> ScatterChart]
    ELSE [ok |-> FALSE, value |-> [type |-> "null"]]

\* a map whose JSON.parse is not caught per block: one throw loses them all
ParseMatchesAllOrNothing(ms) ==
    IF \E i \in DOMAIN ms : ~JSONParse(ms[i].body).ok THEN <<>>
    ELSE [i \in DOMAIN ms |-> JSONParse(ms[i].body).value]

\* parseChartDataFromResponse: map every match through JSON.parse, a throw
\* becomes null, and the nulls are filtered out
RECURSIVE ParseMatches(_)
ParseMatches(ms) ==
    IF ms = <<>> THEN <<>>
    ELSE LET r == JSONParse(Head(ms).body) IN
         (IF r.ok THEN <<r.value>> ELSE <<>>) \o ParseMatches(Tail(ms))

parseChartDataFromResponse(analysisText) ==
    LET matches == ChartMatches(analysisText, 1) IN
    IF Len(matches) = 0 THEN <<>> ELSE ParseMatches(matches)

(***************************************************************************)
(* Inputs of the environment                                               *)
(***************************************************************************)
\* raw analysis texts the backend may answer with
\* prose followed by a line break, and a reply that is one chart block
ReplyPlain == <<"D", "o", "n", "e", NL>>
ReplyChart == ChartOpen \o BarDoc \o ChartClose
Replies == {ReplyPlain, ReplyChart}

\* suggestedInsights; a fixed label is held as one token
suggestedInsights == {<<"Show summary statistics">>}

\* texts the user may type into the Textarea: blank, or the words of an
\* insight
Inputs == {<<" ">>} \cup suggestedInsights

\* names of the files the user may pick
FileCsv == <<"s", ".", "c", "s", "v">>
FileTxt == <<"s", ".", "t", "x", "t">>
Files == {FileCsv, FileTxt}

\* the backend's UploadResponse for a file
UploadResponseOf(file) ==
    [file_id |-> "f1", filename |-> file,
     summary |-> [rows |-> 3, columns |-> <<"region", "revenue">>]]

(***************************************************************************)
(* State                                                                   *)
(***************************************************************************)
\* A user event is handled at least a millisecond after the event before
\* it; a chat completion is handled at least a millisecond after its own
\* request was sent, but possibly in the same millisecond as another event
\* (delay 0), or in a later one (delay 1): only the order and the equality
\* of timestamps matter
Delays == {0, 1}
Null == "null"
NoToast == "none"
Calls == 1..MaxSends

VARIABLES
    activeFileId,        \* useState<string | null>(null)
    fileData,            \* useState<FileData | null>(null)
    messages,            \* useState<Message[]>([])
    newMessage,          \* useState("")
    isUploading,         \* useState(false)
    isSending,           \* useState(false)
    uploadProgress,      \* useState(0)
    visualizationCharts, \* useState<ChartData[]>([])
    typingText,          \* useState<string>("")
    isTyping,            \* useState<boolean>(false)
    fullResponse,        \* useState<string>("")
    now,                 \* the millisecond clock behind new Date()
    toast,               \* the notification the last step showed (toast.*)
    calls,               \* the sendMessage invocations and their closures
    nextCall,            \* the next sendMessage invocation to be issued
    upload,              \* the handleFileUpload invocation and its timers
    gap,                 \* scrollHeight - (scrollTop + clientHeight), in px
    scrolls              \* the scheduled runs of scrollToBottom

vars == <<activeFileId, fileData, messages, newMessage, isUploading, isSending,
          uploadProgress, visualizationCharts, typingText, isTyping,
          fullResponse, now, toast, calls, nextCall, upload, gap, scrolls>>

chatVars == <<messages, newMessage, isSending, visualizationCharts,
              typingText, isTyping, fullResponse, calls, nextCall>>

uploadVars == <<activeFileId, fileData, isUploading, uploadProgress, upload>>

IdleCall ==
    [pc |-> "idle", content |-> <<>>, sentAt |-> 0, analysis |-> <<>>,
     text |-> <<>>, timestamp |-> 0, index |-> 0, userPos |-> 0,
     replyPos |-> 0, closureTyping |-> FALSE]

Init ==
    /\ activeFileId = Null
    /\ fileData = None
    /\ messages = <<>>
    /\ newMessage = <<>>
    /\ isUploading = FALSE
    /\ isSending = FALSE
    /\ uploadProgress = 0
    /\ visualizationCharts = <<>>
    /\ typingText = <<>>
    /\ isTyping = FALSE
    /\ fullResponse = <<>>
    /\ now = 0
    /\ toast = NoToast
    /\ calls = [c \in Calls |-> IdleCall]
    /\ nextCall = 1
    /\ gap = 0
    /\ scrolls = {}
    /\ upload = [pc |-> "idle", file |-> <<>>, interval |-> FALSE,
                 hideTimer |-> FALSE]

(***************************************************************************)
(* Upload: handleFileUpload and its timers                                 *)
(***************************************************************************)
\* String.prototype.toLowerCase on the letters file names are made of
LowerChar(ch) ==
    CASE ch = "C" -> "c" [] ch = "S" -> "s" [] ch = "V" -> "v"
      [] ch = "X" -> "x" [] ch = "L" -> "l" [] ch = "T" -> "t"
      [] OTHER -> ch

ToLowerCase(s) == [i \in 1..Len(s) |-> LowerChar(s[i])]

\* String.prototype.endsWith
EndsWith(s, suffix) ==
    /\ Len(suffix) <= Len(s)
    /\ SubSeq(s, Len(s) - Len(suffix) + 1, Len(s)) = suffix

(***************************************************************************)
(* The auto-scroll effect                                                  *)
(***************************************************************************)

\* a scheduled run of scrollToBottom: typing is the isTyping held by the
\* closure that was scheduled, via is requestAnimationFrame or setTimeout
ScrollRequest(typing, via) == [typing |-> typing, via |-> via]

\* the render after a handler.  The effect on [messages, typingText,
\* isTyping, scrollToBottom] runs again when the handler stored a new
\* messages array or changed typingText or isTyping, and schedules the
\* scrollToBottom of that render; own are the runs the handler scheduled
\* itself
Renders(own, stored) ==
    LET rerun == stored \/ typingText' # typingText \/ isTyping' # isTyping
        effect == IF ~rerun THEN {}
                  ELSE IF isTyping' /\ typingText' # <<>>
                       THEN {ScrollRequest(isTyping', "frame")}
                  ELSE IF Len(messages') > 0
                       THEN {ScrollRequest(isTyping', "timeout")}
                  ELSE {}
    IN /\ scrolls' = scrolls \cup own \cup effect
       /\ UNCHANGED gap

\* an allow-list that leaves the dot out of the suffixes
AllowedFileNoDot(name) ==
    LET fileName == ToLowerCase(name) IN
    \/ EndsWith(fileName, <<"x", "l", "s", "x">>)
    \/ EndsWith(fileName, <<"x", "l", "s">>)
    \/ EndsWith(fileName, <<"c", "s", "v">>)

AllowedFile(name) ==
    LET fileName == ToLowerCase(name) IN
    \/ EndsWith(fileName, <<".", "x", "l", "s", "x">>)
    \/ EndsWith(fileName, <<".", "x", "l", "s">>)
    \/ EndsWith(fileName, <<".", "c", "s", "v">>)

\* decimal rendering of a template value (numbers below 100)
Digit(n) == <<"0", "1", "2", "3", "4", "5", "6", "7", "8", "9">>[n + 1]
NumberToString(n) ==
    IF n < 10 THEN <<Digit(n)>> ELSE <<Digit(n \div 10), Digit(n % 10)>>

\* a template that prints the row count in the place of the column count
WelcomeMessageRowsTwice(data) ==
    <<"**File Analysis Complete!**\n\nI've processed your file \"**">>
    \o data.filename
    \o <<"**\". \n\nHere's a summary of your data:\n* **Rows:** ">>
    \o NumberToString(data.summary.rows)
    \o <<"\n* **Columns:** ">>
    \o NumberToString(data.summary.rows)
    \o <<"\n\nHow can I help you analyze this data? You can ask me to:\n* Generate visualizations\n* Calculate statistics\n* Find trends or patterns\n* Summarize key insights">>

\* the welcome template; its fixed parts are held as single tokens
WelcomeMessage(data) ==
    <<"**File Analysis Complete!**\n\nI've processed your file \"**">>
    \o data.filename
    \o <<"**\". \n\nHere's a summary of your data:\n* **Rows:** ">>
    \o NumberToString(data.summary.rows)
    \o <<"\n* **Columns:** ">>
    \o NumberToString(Len(data.summary.columns))
    \o <<"\n\nHow can I help you analyze this data? You can ask me to:\n* Generate visualizations\n* Calculate statistics\n* Find trends or patterns\n* Summarize key insights">>

\* a file Input that stays on the page once a file is active
HandleFileUploadAnytime(file) ==
    /\ ~isUploading
    /\ IF ~AllowedFile(file)
       THEN /\ toast' = "error: please upload an Excel or CSV file"
            /\ UNCHANGED <<isUploading, uploadProgress, upload>>
       ELSE /\ isUploading' = TRUE
            /\ uploadProgress' = 0
            /\ upload' = [upload EXCEPT !.pc = "awaiting", !.file = file,
                                        !.interval = TRUE]
            /\ toast' = NoToast
    /\ UNCHANGED <<activeFileId, fileData, now>>
    /\ UNCHANGED chatVars
    /\ Renders({}, FALSE)

\* onChange of the file Input: shown while no file is active, disabled
\* while isUploading
HandleFileUpload(file) ==
    /\ activeFileId = Null
    /\ ~isUploading
    /\ IF ~AllowedFile(file)
       THEN /\ toast' = "error: please upload an Excel or CSV file"
            /\ UNCHANGED <<isUploading, uploadProgress, upload>>
       ELSE /\ isUploading' = TRUE
            /\ uploadProgress' = 0
            /\ upload' = [upload EXCEPT !.pc = "awaiting", !.file = file,
                                        !.interval = TRUE]
            /\ toast' = NoToast
    /\ UNCHANGED <<activeFileId, fileData, now>>
    /\ UNCHANGED chatVars
    /\ Renders({}, FALSE)

\* a progress callback that never stops at 95
ProgressTickNoCap ==
    /\ upload.interval
    /\ IF uploadProgress >= 100
       THEN /\ upload' = [upload EXCEPT !.interval = FALSE]
            /\ UNCHANGED uploadProgress
       ELSE /\ uploadProgress' = uploadProgress + 5
            /\ UNCHANGED upload
    /\ toast' = NoToast
    /\ UNCHANGED <<activeFileId, fileData, isUploading, now>>
    /\ UNCHANGED chatVars
    /\ Renders({}, FALSE)

\* the setInterval callback of the simulated progress
ProgressTick ==
    /\ upload.interval
    /\ IF uploadProgress >= 95
       THEN /\ upload' = [upload EXCEPT !.interval = FALSE]
            /\ UNCHANGED uploadProgress
       ELSE /\ uploadProgress' = uploadProgress + 5
            /\ UNCHANGED upload
    /\ toast' = NoToast
    /\ UNCHANGED <<activeFileId, fileData, isUploading, now>>
    /\ UNCHANGED chatVars
    /\ Renders({}, FALSE)

\* uploadFile resolved: the try block, then finally
UploadSucceeds(data) ==
    /\ upload.pc = "awaiting"
    /\ data = UploadResponseOf(upload.file)
    /\ now' = now + 1
    /\ fileData' = Some(data)
    /\ activeFileId' = data.file_id
    /\ messages' = <<[role |-> "assistant",
                      content |-> WelcomeMessage(data),
                      formattedContent |-> Some(WelcomeMessage(data)),
                      timestamp |-> now',
                      charts |-> None,
                      isTyping |-> None]>>
    /\ toast' = "success: file uploaded"
    /\ uploadProgress' = 100
    /\ upload' = [upload EXCEPT !.pc = "idle", !.interval = FALSE,
                                !.hideTimer = TRUE]
    /\ UNCHANGED <<isUploading, newMessage, isSending,
                   visualizationCharts, typingText, isTyping, fullResponse,
                   calls, nextCall>>
    /\ Renders({}, TRUE)

\* a catch block that also posts an apology to the conversation
UploadFailsPostsMessage ==
    /\ upload.pc = "awaiting"
    /\ toast' = "error: failed to upload file"
    /\ uploadProgress' = 100
    /\ upload' = [upload EXCEPT !.pc = "idle", !.interval = FALSE,
                                !.hideTimer = TRUE]
    /\ messages' = Append(messages,
            [role |-> "assistant",
             content |-> <<"Failed to upload file. Please try again.">>,
             formattedContent |-> None, timestamp |-> now,
             charts |-> None, isTyping |-> None])
    /\ UNCHANGED <<activeFileId, fileData, isUploading, now>>
    /\ UNCHANGED <<newMessage, isSending, visualizationCharts, typingText,
                   isTyping, fullResponse, calls, nextCall>>
    /\ Renders({}, TRUE)

\* uploadFile rejected: the catch block, then finally
UploadFails ==
    /\ upload.pc = "awaiting"
    /\ toast' = "error: failed to upload file"
    /\ uploadProgress' = 100
    /\ upload' = [upload EXCEPT !.pc = "idle", !.interval = FALSE,
                                !.hideTimer = TRUE]
    /\ UNCHANGED <<activeFileId, fileData, isUploading, now>>
    /\ UNCHANGED chatVars
    /\ Renders({}, FALSE)

\* setTimeout(() => setIsUploading(false), 500)
HideProgress ==
    /\ upload.hideTimer
    /\ isUploading' = FALSE
    /\ upload' = [upload EXCEPT !.hideTimer = FALSE]
    /\ toast' = NoToast
    /\ UNCHANGED <<activeFileId, fileData, uploadProgress, now>>
    /\ UNCHANGED chatVars
    /\ Renders({}, FALSE)

(***************************************************************************)
(* Chat: sendMessage, its continuations and the typing loop                *)
(***************************************************************************)
ErrorMessage == <<"**Sorry!** I encountered an error. Please try again.">>

\* a slip that puts the new message first: [message, ...prev]
PrependMessage(prev, message) == <<message>> \o prev

\* [...prev, message]
AppendMessage(prev, message) == Append(prev, message)

\* a guard that tests the text for emptiness without trimming it
SendMessageNoTrim(messageText, typed) ==
    LET messageContent == IF messageText # <<>> THEN messageText
                          ELSE newMessage IN
    IF messageContent = <<>> \/ activeFileId = Null
    THEN /\ newMessage' = typed
         /\ UNCHANGED <<messages, isSending, calls, nextCall, now>>
    ELSE /\ nextCall <= MaxSends
         /\ now' = now + 1
         /\ messages' = AppendMessage(messages,
                [role |-> "user", content |-> messageContent,
                 formattedContent |-> None, timestamp |-> now',
                 charts |-> None, isTyping |-> None])
         /\ newMessage' = <<>>
         /\ isSending' = TRUE
         /\ calls' = [calls EXCEPT ![nextCall] =
                [IdleCall EXCEPT !.pc = "awaiting",
                                 !.content = messageContent,
                                 !.sentAt = now',
                                 !.userPos = Len(messages) + 1,
                                 !.closureTyping = isTyping]]
         /\ nextCall' = nextCall + 1

\* sendMessage(messageText) up to its await.  messageText is <<>> when the
\* argument is omitted; typed is what setNewMessage calls made earlier in
\* the same handler leave in newMessage when sendMessage returns early
SendMessage(messageText, typed) ==
    LET messageContent == IF messageText # <<>> THEN messageText
                          ELSE newMessage IN
    IF Trim(messageContent) = <<>> \/ activeFileId = Null
    THEN /\ newMessage' = typed
         /\ UNCHANGED <<messages, isSending, calls, nextCall, now>>
    ELSE /\ nextCall <= MaxSends
         /\ now' = now + 1
         /\ messages' = AppendMessage(messages,
                [role |-> "user", content |-> messageContent,
                 formattedContent |-> None, timestamp |-> now',
                 charts |-> None, isTyping |-> None])
         /\ newMessage' = <<>>
         /\ isSending' = TRUE
         /\ calls' = [calls EXCEPT ![nextCall] =
                [IdleCall EXCEPT !.pc = "awaiting",
                                 !.content = messageContent,
                                 !.sentAt = now',
                                 !.userPos = Len(messages) + 1,
                                 !.closureTyping = isTyping]]
         /\ nextCall' = nextCall + 1

chatFrame == <<visualizationCharts, typingText, isTyping, fullResponse>>

\* onChange of the Textarea, which is disabled while isSending
SetNewMessage(t) ==
    /\ activeFileId # Null
    /\ ~isSending
    /\ newMessage # t
    /\ newMessage' = t
    /\ toast' = NoToast
    /\ UNCHANGED <<messages, isSending, calls, nextCall, now>>
    /\ UNCHANGED chatFrame
    /\ UNCHANGED uploadVars
    /\ Renders({}, FALSE)

\* onSubmit of the form: the submit Button is disabled while isSending or
\* while newMessage is blank
SubmitForm ==
    /\ activeFileId # Null
    /\ ~isSending
    /\ Trim(newMessage) # <<>>
    /\ SendMessage(<<>>, newMessage)
    /\ toast' = NoToast
    /\ UNCHANGED chatFrame
    /\ UNCHANGED uploadVars
    /\ Renders({}, messages' # messages)

\* onKeyDown of the Textarea with Enter and no shift
EnterKey ==
    /\ activeFileId # Null
    /\ ~isSending
    /\ SendMessage(<<>>, newMessage)
    /\ toast' = NoToast
    /\ UNCHANGED chatFrame
    /\ UNCHANGED uploadVars
    /\ Renders({}, messages' # messages)

\* onClick of a suggested-insight Badge: the badges carry no disabled state
handleInsightClick(insight) ==
    /\ activeFileId # Null
    /\ SendMessage(insight, insight)
    /\ toast' = NoToast
    /\ UNCHANGED chatFrame
    /\ UNCHANGED uploadVars
    /\ Renders({}, messages' # messages)

\* chunk sizes that change at the round lengths instead of after them
ChunkSizeInclusive(length) ==
    IF length >= 2000 THEN 10
    ELSE IF length >= 1000 THEN 8
    ELSE IF length >= 500 THEN 5
    ELSE 3

\* chunkSize of typeNextCharacter
ChunkSize(length) ==
    IF length > 2000 THEN 10
    ELSE IF length > 1000 THEN 8
    ELSE IF length > 500 THEN 5
    ELSE 3

\* an update that appends the patch when no message has the timestamp
FinalizeOrAppend(prev, timestamp, analysis, formattedContent) ==
    IF \E i \in 1..Len(prev) : prev[i].timestamp = timestamp
    THEN [i \in 1..Len(prev) |->
            IF prev[i].timestamp = timestamp
            THEN [prev[i] EXCEPT !.content = analysis,
                                 !.formattedContent = Some(formattedContent),
                                 !.isTyping = Some(FALSE)]
            ELSE prev[i]]
    ELSE Append(prev, [role |-> "assistant", content |-> analysis,
                       formattedContent |-> Some(formattedContent),
                       timestamp |-> timestamp, charts |-> None,
                       isTyping |-> Some(FALSE)])

\* a completion callback that leaves the placeholder's content as it is
FinalizeMessagesKeepsContent(prev, timestamp, analysis, formattedContent) ==
    [i \in 1..Len(prev) |->
        IF prev[i].timestamp = timestamp
        THEN [prev[i] EXCEPT !.formattedContent = Some(formattedContent),
                             !.isTyping = Some(FALSE)]
        ELSE prev[i]]

\* the completion callback handed to simulateTyping: update by timestamp
FinalizeMessages(prev, timestamp, analysis, formattedContent) ==
    [i \in 1..Len(prev) |->
        IF prev[i].timestamp = timestamp
        THEN [prev[i] EXCEPT !.content = analysis,
                             !.formattedContent = Some(formattedContent),
                             !.isTyping = Some(FALSE)]
        ELSE prev[i]]

\* a try block that adds the new charts to the ones in the slot
ChatSucceedsMerges(c, analysis, delay) ==
    /\ calls[c].pc = "awaiting"
    /\ now + delay > calls[c].sentAt
    /\ now' = now + delay
    /\ LET charts == parseChartDataFromResponse(analysis)
           formattedContent == formatAIResponse(analysis)
           timestamp == now'
       IN /\ visualizationCharts' = visualizationCharts \o charts
          /\ messages' = AppendMessage(messages,
                [role |-> "assistant", content |-> <<>>,
                 formattedContent |-> Some(<<>>), timestamp |-> timestamp,
                 charts |-> IF Len(charts) > 0 THEN Some(charts) ELSE None,
                 isTyping |-> Some(TRUE)])
          /\ isTyping' = TRUE
          /\ typingText' = <<>>
          /\ fullResponse' = formattedContent
          /\ calls' = [calls EXCEPT ![c] =
                [@ EXCEPT !.pc = "typing", !.analysis = analysis,
                          !.text = formattedContent,
                          !.timestamp = timestamp, !.index = 0,
                          !.replyPos = Len(messages) + 1]]
    /\ isSending' = FALSE
    /\ toast' = NoToast
    /\ UNCHANGED <<newMessage, nextCall>>
    /\ UNCHANGED uploadVars
    /\ Renders({}, TRUE)

\* a try block that publishes the parsed charts whether or not there are any
ChatSucceedsPublishesAlways(c, analysis, delay) ==
    /\ calls[c].pc = "awaiting"
    /\ now + delay > calls[c].sentAt
    /\ now' = now + delay
    /\ LET charts == parseChartDataFromResponse(analysis)
           formattedContent == formatAIResponse(analysis)
           timestamp == now'
       IN /\ visualizationCharts' = charts
          /\ messages' = AppendMessage(messages,
                [role |-> "assistant", content |-> <<>>,
                 formattedContent |-> Some(<<>>), timestamp |-> timestamp,
                 charts |-> IF Len(charts) > 0 THEN Some(charts) ELSE None,
                 isTyping |-> Some(TRUE)])
          /\ isTyping' = TRUE
          /\ typingText' = <<>>
          /\ fullResponse' = formattedContent
          /\ calls' = [calls EXCEPT ![c] =
                [@ EXCEPT !.pc = "typing", !.analysis = analysis,
                          !.text = formattedContent,
                          !.timestamp = timestamp, !.index = 0,
                          !.replyPos = Len(messages) + 1]]
    /\ isSending' = FALSE
    /\ toast' = NoToast
    /\ UNCHANGED <<newMessage, nextCall>>
    /\ UNCHANGED uploadVars
    /\ Renders({}, TRUE)

\* sendChatMessage resolved with data.analysis = analysis: the rest of the
\* try block (simulateTyping up to its first setTimeout), then finally
ChatSucceeds(c, analysis, delay) ==
    /\ calls[c].pc = "awaiting"
    /\ now + delay > calls[c].sentAt
    /\ now' = now + delay
    /\ LET charts == parseChartDataFromResponse(analysis)
           formattedContent == formatAIResponse(analysis)
           timestamp == now'
       IN /\ visualizationCharts' =
                IF Len(charts) > 0 THEN charts ELSE visualizationCharts
          /\ messages' = AppendMessage(messages,
                [role |-> "assistant", content |-> <<>>,
                 formattedContent |-> Some(<<>>), timestamp |-> timestamp,
                 charts |-> IF Len(charts) > 0 THEN Some(charts) ELSE None,
                 isTyping |-> Some(TRUE)])
          /\ isTyping' = TRUE
          /\ typingText' = <<>>
          /\ fullResponse' = formattedContent
          /\ calls' = [calls EXCEPT ![c] =
                [@ EXCEPT !.pc = "typing", !.analysis = analysis,
                          !.text = formattedContent,
                          !.timestamp = timestamp, !.index = 0,
                          !.replyPos = Len(messages) + 1]]
    /\ isSending' = FALSE
    /\ toast' = NoToast
    /\ UNCHANGED <<newMessage, nextCall>>
    /\ UNCHANGED uploadVars
    /\ Renders({}, TRUE)

\* the catch block without the finally that resets isSending
ChatFailsKeepsSending(c, delay) ==
    /\ calls[c].pc = "awaiting"
    /\ now + delay > calls[c].sentAt
    /\ now' = now + delay
    /\ toast' = "error: failed to get a response"
    /\ messages' = AppendMessage(messages,
            [role |-> "assistant", content |-> ErrorMessage,
             formattedContent |-> Some(ErrorMessage), timestamp |-> now',
             charts |-> None, isTyping |-> None])
    /\ calls' = [calls EXCEPT ![c] =
            [@ EXCEPT !.pc = "failed", !.replyPos = Len(messages) + 1]]
    /\ UNCHANGED <<newMessage, nextCall, visualizationCharts,
                   typingText, isTyping, fullResponse, isSending>>
    /\ UNCHANGED uploadVars
    /\ Renders({}, TRUE)

\* a catch block that appends the apology twice
ChatFailsApologizesTwice(c, delay) ==
    /\ calls[c].pc = "awaiting"
    /\ now + delay > calls[c].sentAt
    /\ now' = now + delay
    /\ toast' = "error: failed to get a response"
    /\ LET apology == [role |-> "assistant", content |-> ErrorMessage,
                       formattedContent |-> Some(ErrorMessage),
                       timestamp |-> now', charts |-> None,
                       isTyping |-> None]
       IN messages' = AppendMessage(AppendMessage(messages, apology),
                                    apology)
    /\ calls' = [calls EXCEPT ![c] =
            [@ EXCEPT !.pc = "failed", !.replyPos = Len(messages) + 1]]
    /\ isSending' = FALSE
    /\ UNCHANGED <<newMessage, nextCall, visualizationCharts,
                   typingText, isTyping, fullResponse>>
    /\ UNCHANGED uploadVars
    /\ Renders({}, TRUE)

\* sendChatMessage rejected: the catch block, then finally
ChatFails(c, delay) ==
    /\ calls[c].pc = "awaiting"
    /\ now + delay > calls[c].sentAt
    /\ now' = now + delay
    /\ toast' = "error: failed to get a response"
    /\ messages' = AppendMessage(messages,
            [role |-> "assistant", content |-> ErrorMessage,
             formattedContent |-> Some(ErrorMessage), timestamp |-> now',
             charts |-> None, isTyping |-> None])
    /\ calls' = [calls EXCEPT ![c] =
            [@ EXCEPT !.pc = "failed", !.replyPos = Len(messages) + 1]]
    /\ isSending' = FALSE
    /\ UNCHANGED <<newMessage, nextCall, visualizationCharts,
                   typingText, isTyping, fullResponse>>
    /\ UNCHANGED uploadVars
    /\ Renders({}, TRUE)

\* an end index that stops one character short of the text
EndIndexShort(index, text) ==
    Min(index + ChunkSize(Len(text)), Len(text) - 1)

\* the index typeNextCharacter moves to
EndIndex(index, text) == Min(index + ChunkSize(Len(text)), Len(text))

\* one run of typeNextCharacter in the closure of call c
typeNextCharacter(c) ==
    /\ calls[c].pc = "typing"
    /\ LET text == calls[c].text
           index == calls[c].index
       IN IF index < Len(text)
          THEN LET endIndex == EndIndex(index, text)
                   chunk == Substring(text, index, endIndex)
               IN /\ typingText' = typingText \o chunk
                  /\ calls' = [calls EXCEPT ![c].index = endIndex]
                  /\ UNCHANGED <<isTyping, messages>>
          ELSE /\ isTyping' = FALSE
               /\ messages' = FinalizeMessages(messages, calls[c].timestamp,
                                               calls[c].analysis, text)
               /\ calls' = [calls EXCEPT ![c].pc = "done"]
               /\ UNCHANGED typingText
    /\ toast' = NoToast
    /\ UNCHANGED <<newMessage, isSending, visualizationCharts, fullResponse,
                   nextCall, now>>
    /\ UNCHANGED uploadVars
    /\ LET closure == calls[c].closureTyping
       IN IF calls[c].index < Len(calls[c].text)
          THEN Renders({ScrollRequest(closure, "frame")}, FALSE)
          ELSE Renders({ScrollRequest(closure, "timeout")}, TRUE)

\* the steps of the component while the transcript is left where it is: the
\* runs of scrollToBottom and the scrolling of the user are in ScrollNext
Next ==
    \/ \E file \in Files : HandleFileUpload(file)
    \/ ProgressTick
    \/ \E file \in Files : UploadSucceeds(UploadResponseOf(file))
    \/ UploadFails
    \/ HideProgress
    \/ \E t \in Inputs \cup {<<>>} : SetNewMessage(t)
    \/ SubmitForm
    \/ EnterKey
    \/ \E insight \in suggestedInsights : handleInsightClick(insight)
    \/ \E c \in Calls, analysis \in Replies, delay \in Delays :
            ChatSucceeds(c, analysis, delay)
    \/ \E c \in Calls, delay \in Delays : ChatFails(c, delay)
    \/ \E c \in Calls : typeNextCharacter(c)

Spec == Init /\ [][Next]_vars

(***************************************************************************)
(* Views of the state used by the properties                               *)
(***************************************************************************)
Revealing == {i \in DOMAIN messages : messages[i].isTyping = Some(TRUE)}
InFlight == {c \in Calls : calls[c].pc = "awaiting"}
ActiveReveals == {c \in Calls : calls[c].pc = "typing"}

\* call c starts its reveal / finishes its reveal / fails in this step
StartsReveal(c) == calls[c].pc = "awaiting" /\ calls'[c].pc = "typing"
FinishesReveal(c) == calls[c].pc = "typing" /\ calls'[c].pc = "done"
FailsNow(c) == calls[c].pc = "awaiting" /\ calls'[c].pc = "failed"
Accepted(c) == calls[c].pc = "idle" /\ calls'[c].pc = "awaiting"

(***************************************************************************)
(* C1: in every reachable state at most one message of messages has        *)
(* isTyping = true.                                                        *)
(***************************************************************************)
AtMostOneRevealingMessage == Cardinality(Revealing) <= 1

(***************************************************************************)
(* C2: at most one chat round trip (a sendChatMessage call awaiting its    *)
(* response) is in flight at any time.                                     *)
(***************************************************************************)
AtMostOneRoundTrip == Cardinality(InFlight) <= 1

(***************************************************************************)
(* C3: simulateTyping is never begun while an earlier reveal has not yet   *)
(* reached Done, so at most one typing loop is active.                     *)
(***************************************************************************)
NoOverlappingReveals ==
    [][\A c \in Calls : StartsReveal(c) => ActiveReveals = {}]_vars

(***************************************************************************)
(* C5: when a reveal finishes, exactly the placeholder of that reveal is   *)
(* updated in place (content = raw reply, formattedContent = display text, *)
(* isTyping cleared, role, timestamp and charts retained) and every other  *)
(* message, the order and the length of the store are unchanged.           *)
(***************************************************************************)
FinalizedInPlace(c) ==
    messages' = [messages EXCEPT ![calls[c].replyPos] =
                    [@ EXCEPT !.content = calls[c].analysis,
                              !.formattedContent = Some(calls[c].text),
                              !.isTyping = Some(FALSE)]]

FinalizationUpdatesOnlyPlaceholder ==
    [][\A c \in Calls : FinishesReveal(c) => FinalizedInPlace(c)]_vars

(***************************************************************************)
(* C6: no two messages of a conversation have the same timestamp.          *)
(***************************************************************************)
UniqueTimestamps ==
    \A i, j \in DOMAIN messages :
        messages[i].timestamp = messages[j].timestamp => i = j

(***************************************************************************)
(* C9: for two sends issued one after the other, the user message and the  *)
(* assistant reply (or apology) of the earlier send precede the user       *)
(* message and the assistant reply of the later send.                      *)
(***************************************************************************)
PositionsOf(c) == {calls[c].userPos, calls[c].replyPos} \ {0}

MessagesInSendOrder ==
    \A c1, c2 \in Calls :
        (c1 < c2 /\ calls[c2].pc # "idle") =>
            /\ calls[c1].replyPos # 0
            /\ \A p1 \in PositionsOf(c1), p2 \in PositionsOf(c2) : p1 < p2

(***************************************************************************)
(* C8: every append (user message, reveal placeholder, apology) adds       *)
(* exactly one message at the end and leaves the earlier messages as they  *)
(* were; apart from the upload reset and the finalization of a reveal, the *)
(* previous list is a prefix of the new one.                               *)
(***************************************************************************)
IsPrefix(s, t) == Len(s) <= Len(t) /\ SubSeq(t, 1, Len(s)) = s

AppendsOne == Len(messages') = Len(messages) + 1 /\ IsPrefix(messages, messages')

AppendStep ==
    \E c \in Calls : Accepted(c) \/ StartsReveal(c) \/ FailsNow(c)

UploadReset == upload.pc = "awaiting" /\ activeFileId' # activeFileId

AppendOnlyStore ==
    [][/\ AppendStep => AppendsOne
       /\ ~(UploadReset \/ \E c \in Calls : FinishesReveal(c))
            => IsPrefix(messages, messages')]_vars

\* a user message, a placeholder and an apology have all been appended
AppendOnlyStoreWitness ==
    /\ Len(messages) >= 5
    /\ \E c \in Calls : calls[c].pc = "failed"
    /\ \E c \in Calls : calls[c].pc \in {"typing", "done"}

(***************************************************************************)
(* C10: when a chat request fails, exactly one apology message (assistant, *)
(* not typing) is appended after the user's message, an error notification *)
(* is shown, no reveal placeholder is created for that send, and isSending *)
(* is false afterwards.                                                    *)
(***************************************************************************)
Apology(timestamp) ==
    [role |-> "assistant", content |-> ErrorMessage,
     formattedContent |-> Some(ErrorMessage), timestamp |-> timestamp,
     charts |-> None, isTyping |-> None]

FailureHandled(c) ==
    /\ messages' = Append(messages, Apology(now'))
    /\ calls'[c].replyPos = Len(messages')
    /\ calls'[c].replyPos > calls'[c].userPos
    /\ messages'[calls'[c].userPos].role = "user"
    /\ Revealing' = Revealing
    /\ toast' = "error: failed to get a response"
    /\ isSending' = FALSE

ChatFailureAppendsOneApology ==
    [][\A c \in Calls :
        /\ FailsNow(c) => FailureHandled(c)
        /\ calls[c].pc = "failed" => calls'[c] = calls[c]]_vars

\* a request has just failed: its apology is the last message
ChatFailureWitness ==
    /\ toast = "error: failed to get a response"
    /\ \E c \in Calls : calls[c].pc = "failed"
                        /\ messages[calls[c].replyPos] = Apology(now)
    /\ ~isSending

(***************************************************************************)
(* The typing loop on its own: a first reveal is running, a second send is *)
(* awaiting its reply; the reply is drawn from texts of every length up to *)
(* MaxLen and the timers fire                                              *)
(***************************************************************************)
Prose(n) == [i \in 1..n |-> IF i % 3 = 0 THEN "." ELSE "a"]

RevealReplies == {Prose(n) \o <<NL>> : n \in 0..MaxLen} \cup {ReplyChart}

UserMessage(content, timestamp) ==
    [role |-> "user", content |-> content, formattedContent |-> None,
     timestamp |-> timestamp, charts |-> None, isTyping |-> None]

Placeholder(timestamp) ==
    [role |-> "assistant", content |-> <<>>, formattedContent |-> Some(<<>>),
     timestamp |-> timestamp, charts |-> None, isTyping |-> Some(TRUE)]

Welcome(timestamp) ==
    [role |-> "assistant",
     content |-> WelcomeMessage(UploadResponseOf(FileCsv)),
     formattedContent |-> Some(WelcomeMessage(UploadResponseOf(FileCsv))),
     timestamp |-> timestamp, charts |-> None, isTyping |-> None]

Insight == CHOOSE insight \in suggestedInsights : TRUE

\* after the upload: the first send was answered with ReplyPlain and is being
\* revealed, the second send is in flight
RevealInit ==
    /\ activeFileId = "f1"
    /\ fileData = Some(UploadResponseOf(FileCsv))
    /\ messages = <<Welcome(1), UserMessage(Insight, 2), Placeholder(3),
                    UserMessage(Insight, 4)>>
    /\ newMessage = <<>>
    /\ isUploading = FALSE
    /\ isSending = TRUE
    /\ uploadProgress = 100
    /\ visualizationCharts = <<>>
    /\ typingText = <<>>
    /\ isTyping = TRUE
    /\ fullResponse = formatAIResponse(ReplyPlain)
    /\ now = 4
    /\ toast = NoToast
    /\ calls = [c \in Calls |->
            IF c = 1
            THEN [IdleCall EXCEPT !.pc = "typing", !.content = Insight,
                      !.sentAt = 2, !.analysis = ReplyPlain,
                      !.text = formatAIResponse(ReplyPlain),
                      !.timestamp = 3, !.userPos = 2, !.replyPos = 3]
            ELSE IF c = 2
            THEN [IdleCall EXCEPT !.pc = "awaiting", !.content = Insight,
                      !.sentAt = 4, !.userPos = 4, !.closureTyping = TRUE]
            ELSE IdleCall]
    /\ nextCall = 3
    /\ gap = 0
    /\ scrolls = {}
    /\ upload = [pc |-> "idle", file |-> FileCsv, interval |-> FALSE,
                 hideTimer |-> FALSE]

RevealNext ==
    \/ \E c \in Calls, analysis \in RevealReplies, delay \in Delays :
            ChatSucceeds(c, analysis, delay)
    \/ \E c \in Calls : typeNextCharacter(c)

\* the timers set by setTimeout keep firing
RevealSpec ==
    /\ RevealInit
    /\ [][RevealNext]_vars
    /\ \A c \in Calls : WF_vars(typeNextCharacter(c))

RevealDone(c) ==
    /\ calls[c].pc = "done"
    /\ messages[calls[c].replyPos].formattedContent = Some(calls[c].text)
    /\ messages[calls[c].replyPos].isTyping = Some(FALSE)

(***************************************************************************)
(* C4: for a display text of any length, the empty text included, a reveal *)
(* started by simulateTyping reaches Done when the timers keep firing: the *)
(* placeholder then has formattedContent = the display text and isTyping   *)
(* = false.                                                                *)
(***************************************************************************)
RevealReachesDone ==
    \A c \in Calls : (calls[c].pc = "typing") ~> RevealDone(c)

\* two overlapping reveals are both Done, the second after several chunks
RevealReachesDoneWitness ==
    /\ RevealDone(1)
    /\ RevealDone(2)
    /\ Len(calls[2].text) > 3

(***************************************************************************)
(* The update by timestamp as a function of the store: the store and the   *)
(* timestamp of a reveal are drawn from bounded sets, the reveal then runs *)
(* to its completion callback                                              *)
(***************************************************************************)
StoreTimes == 1..(MaxStore + 1)

StoreMessages ==
    {UserMessage(Insight, t) : t \in StoreTimes}
        \cup {Placeholder(t) : t \in StoreTimes}
        \cup {Welcome(t) : t \in StoreTimes}

Stores == UNION {[1..n -> StoreMessages] : n \in 0..MaxStore}

StoreInit ==
    /\ activeFileId = "f1"
    /\ fileData = Some(UploadResponseOf(FileCsv))
    /\ messages \in Stores
    /\ newMessage = <<>>
    /\ isUploading = FALSE
    /\ isSending = FALSE
    /\ uploadProgress = 100
    /\ visualizationCharts = <<>>
    /\ typingText = <<>>
    /\ isTyping = TRUE
    /\ \E analysis \in Replies, timestamp \in StoreTimes :
        /\ fullResponse = formatAIResponse(analysis)
        /\ calls = [c \in Calls |->
                IF c = 1
                THEN [IdleCall EXCEPT !.pc = "typing", !.content = Insight,
                          !.sentAt = 0, !.analysis = analysis,
                          !.text = formatAIResponse(analysis),
                          !.timestamp = timestamp]
                ELSE IdleCall]
    /\ now = MaxStore + 1
    /\ toast = NoToast
    /\ nextCall = 2
    /\ gap = 0
    /\ scrolls = {}
    /\ upload = [pc |-> "idle", file |-> FileCsv, interval |-> FALSE,
                 hideTimer |-> FALSE]

StoreNext == \E c \in Calls : typeNextCharacter(c)

StoreSpec == StoreInit /\ [][StoreNext]_vars

Absent(timestamp) ==
    \A i \in 1..Len(messages) : messages[i].timestamp # timestamp

(***************************************************************************)
(* C7: the update by timestamp applied to a store in which no message has  *)
(* that timestamp leaves the store as it is: no message is added, none is  *)
(* changed, and the update is defined (it raises no error).                *)
(***************************************************************************)
UpdateOfAbsentTimestampIsNoOp ==
    [][\A c \in Calls :
        (FinishesReveal(c) /\ Absent(calls[c].timestamp))
            => messages' = messages]_vars

\* the callback has run on a non-empty store without the reveal's timestamp
UpdateOfAbsentTimestampWitness ==
    /\ calls[1].pc = "done"
    /\ messages # <<>>
    /\ Absent(calls[1].timestamp)

(***************************************************************************)
(* Views of the upload                                                     *)
(***************************************************************************)
UploadStarts == upload.pc = "idle" /\ upload'.pc = "awaiting"
UploadOutstanding == upload.pc = "awaiting" /\ upload'.pc = "awaiting"
UploadCompletes == upload.pc = "awaiting" /\ upload'.pc = "idle"
UploadFailed == toast = "error: failed to upload file"
UploadSucceeded == toast = "success: file uploaded"

\* String.prototype.includes
Contains(s, p) == IndexFrom(s, p, 1) # 0

(***************************************************************************)
(* C11: when an upload attempt ends in failure, fileData, activeFileId,    *)
(* messages and visualizationCharts are what they were before the upload   *)
(* started: neither the start of the upload, nor any step taken while the  *)
(* call is outstanding, nor the failure branch itself changes them.        *)
(***************************************************************************)
UploadFailureLeavesState ==
    [][(UploadStarts \/ UploadOutstanding
            \/ (UploadCompletes /\ UploadFailed'))
        => UNCHANGED <<fileData, activeFileId, messages,
                       visualizationCharts>>]_vars

\* the failure branch has just run
UploadFailureWitness ==
    /\ UploadFailed
    /\ upload.pc = "idle"
    /\ uploadProgress = 100

(***************************************************************************)
(* C12: right after a successful upload fileData and activeFileId are      *)
(* those of the backend response, columns in response order, and messages  *)
(* is exactly one assistant welcome message, not typing, whose text        *)
(* contains the response's row count and column count.                     *)
(***************************************************************************)
UploadSuccessSeedsConversation ==
    UploadSucceeded =>
        LET data == UploadResponseOf(upload.file) IN
        /\ fileData = Some(data)
        /\ fileData[1].summary.columns = <<"region", "revenue">>
        /\ activeFileId = data.file_id
        /\ Len(messages) = 1
        /\ messages[1].role = "assistant"
        /\ messages[1].isTyping # Some(TRUE)
        /\ Contains(messages[1].content, <<"3">>)
        /\ Contains(messages[1].content, <<"2">>)

\* the success branch has just run and the welcome message is in place
UploadSuccessWitness ==
    /\ UploadSucceeded
    /\ Len(messages) = 1
    /\ activeFileId = "f1"

(***************************************************************************)
(* C13: right after every successful upload visualizationCharts is empty.  *)
(***************************************************************************)
UploadSuccessEmptySlot ==
    UploadSucceeded => visualizationCharts = <<>>

\* a dataset has just become active and the slot holds no chart
UploadSuccessEmptySlotWitness ==
    /\ UploadSucceeded
    /\ fileData # None
    /\ visualizationCharts = <<>>

(***************************************************************************)
(* C16: when the upload call is issued uploadProgress is 0; while it is    *)
(* outstanding uploadProgress stays or grows by 5 and is a multiple of 5   *)
(* that is at most 95; the completion, success or failure, sets it to 100; *)
(* and no step taken when no call is outstanding increments it.            *)
(***************************************************************************)
ProgressIsCosmeticRamp ==
    [][/\ UploadStarts => uploadProgress' = 0
       /\ UploadOutstanding =>
            /\ uploadProgress' \in {uploadProgress, uploadProgress + 5}
            /\ uploadProgress' <= 95
            /\ uploadProgress' % 5 = 0
       /\ UploadCompletes => uploadProgress' = 100
       /\ (upload.pc = "idle" /\ upload'.pc = "idle")
            => uploadProgress' = uploadProgress]_vars

\* the call is still outstanding and the timer has reached its cap
ProgressWitness ==
    /\ upload.pc = "awaiting"
    /\ uploadProgress = 95
    /\ ~upload.interval

(***************************************************************************)
(* The upload on its own, with file names of every accepted suffix, in     *)
(* either case, and names the allow-list must refuse                       *)
(***************************************************************************)
AcceptedFiles ==
    {FileCsv, <<"S", ".", "C", "S", "V">>, <<"s", ".", "x", "l", "s">>,
     <<"s", ".", "X", "l", "s", "x">>, <<"V", ".", "X", "L", "S">>}

RejectedFiles ==
    {FileTxt, <<"s", "c", "s", "v">>, <<"s", ".", "c", "s", "v", ".", "t">>,
     <<"S", ".", "C", "S">>}

UploadFiles == AcceptedFiles \cup RejectedFiles

UploadNext ==
    \/ \E file \in UploadFiles : HandleFileUpload(file)
    \/ ProgressTick
    \/ \E file \in UploadFiles : UploadSucceeds(UploadResponseOf(file))
    \/ UploadFails
    \/ HideProgress

UploadSpec == Init /\ [][UploadNext]_vars

FileRejected == toast = "error: please upload an Excel or CSV file"

(***************************************************************************)
(* C14: handleFileUpload on a file whose name does not end, in any case,   *)
(* in .xlsx, .xls or .csv shows an error notification and changes nothing  *)
(* else: uploadFile is not invoked, and isUploading, uploadProgress,       *)
(* fileData, activeFileId and messages are unchanged.                      *)
(***************************************************************************)
RejectsDisallowedFile ==
    [][\A file \in RejectedFiles :
        HandleFileUpload(file) =>
            /\ FileRejected'
            /\ UNCHANGED <<isUploading, uploadProgress, fileData,
                           activeFileId, messages, upload>>]_vars

\* a disallowed file has just been refused after an earlier attempt failed
RejectsDisallowedFileWitness ==
    /\ FileRejected
    /\ upload.pc = "idle"
    /\ uploadProgress = 100
    /\ ~isUploading

(***************************************************************************)
(* C15: a send attempted with an empty or whitespace-only message issues   *)
(* no network call and shows the user a notification.                      *)
(***************************************************************************)
BlankSendIsNotified ==
    [][(EnterKey /\ Trim(newMessage) = <<>>) =>
            /\ UNCHANGED <<calls, nextCall, messages>>
            /\ toast' # NoToast]_vars

(***************************************************************************)
(* Publication of charts: two sends are in flight and each is answered     *)
(* with prose, with one chart or with two charts                           *)
(***************************************************************************)
ChartBlock(doc) == ChartOpen \o doc \o ChartClose

ReplyTwoCharts ==
    <<"A", NL>> \o ChartBlock(LineDoc) \o <<NL>> \o ChartBlock(BarDoc)

PublishReplies == {ReplyPlain, ReplyChart, ReplyTwoCharts}

\* the charts each of these replies carries
ChartsOf(analysis) ==
    CASE analysis = ReplyChart -> <<BarChart>>
      [] analysis = ReplyTwoCharts -> <<LineChart, BarChart>>
      [] OTHER -> <<>>

\* after the upload two suggested insights were clicked one after the other
PublishInit ==
    /\ activeFileId = "f1"
    /\ fileData = Some(UploadResponseOf(FileCsv))
    /\ messages = <<Welcome(1), UserMessage(Insight, 2),
                    UserMessage(Insight, 3)>>
    /\ newMessage = <<>>
    /\ isUploading = FALSE
    /\ isSending = TRUE
    /\ uploadProgress = 100
    /\ visualizationCharts = <<>>
    /\ typingText = <<>>
    /\ isTyping = FALSE
    /\ fullResponse = <<>>
    /\ now = 3
    /\ toast = NoToast
    /\ calls = [c \in Calls |->
            IF c \in {1, 2}
            THEN [IdleCall EXCEPT !.pc = "awaiting", !.content = Insight,
                      !.sentAt = c + 1, !.userPos = c + 1]
            ELSE IdleCall]
    /\ nextCall = 3
    /\ gap = 0
    /\ scrolls = {}
    /\ upload = [pc |-> "idle", file |-> FileCsv, interval |-> FALSE,
                 hideTimer |-> FALSE]

PublishNext ==
    \/ \E c \in Calls, analysis \in PublishReplies, delay \in Delays :
            ChatSucceeds(c, analysis, delay)
    \/ \E c \in Calls : typeNextCharacter(c)

PublishSpec == PublishInit /\ [][PublishNext]_vars

(***************************************************************************)
(* C17: when a reply that carries one or more charts is handled, the       *)
(* visualization slot becomes exactly that reply's charts, in their order: *)
(* nothing an earlier reply published stays in it.                         *)
(***************************************************************************)
SlotOverwrittenByReply ==
    [][\A c \in Calls :
        (StartsReveal(c) /\ ChartsOf(calls'[c].analysis) # <<>>)
            => visualizationCharts' = ChartsOf(calls'[c].analysis)]_vars

\* a reply with two charts was handled after a reply with one chart
SlotOverwrittenWitness ==
    /\ calls[1].analysis = ReplyChart
    /\ calls[2].analysis = ReplyTwoCharts
    /\ calls[1].replyPos # 0
    /\ calls[1].replyPos < calls[2].replyPos
    /\ visualizationCharts = <<LineChart, BarChart>>

(***************************************************************************)
(* The response parser on its own: one send is in flight and its reply is  *)
(* any text made of at most MaxPieces pieces: prose, line breaks, chart    *)
(* blocks with a good or a bad body, an empty code block, and the two      *)
(* halves of a chart block                                                 *)
(***************************************************************************)
BarBlock == ChartBlock(BarDoc)
LineBlock == ChartBlock(LineDoc)
BadBlock == ChartBlock(BadDoc)
EmptyBlock == Fence \o <<NL>> \o Fence
OpenHead == Fence \o <<"c", "h">>
OpenTail == <<"a", "r", "t", "-", "d", "a", "t", "a", NL>> \o BarDoc
                \o ChartClose

ProsePieces == {<<"a">>, <<NL>>}
GoodBlocks == {BarBlock, LineBlock}
BlockPieces == GoodBlocks \cup {BadBlock}
Pieces == ProsePieces \cup BlockPieces \cup {EmptyBlock, OpenHead, OpenTail}

PieceSeqs(ps) == UNION {[1..n -> ps] : n \in 0..MaxPieces}

RECURSIVE Flatten(_)
Flatten(pieces) ==
    IF pieces = <<>> THEN <<>> ELSE Head(pieces) \o Flatten(Tail(pieces))

ParseReplies == {Flatten(pieces) : pieces \in PieceSeqs(Pieces)}

\* after the upload one suggested insight was clicked
ParseInit ==
    /\ activeFileId = "f1"
    /\ fileData = Some(UploadResponseOf(FileCsv))
    /\ messages = <<Welcome(1), UserMessage(Insight, 2)>>
    /\ newMessage = <<>>
    /\ isUploading = FALSE
    /\ isSending = TRUE
    /\ uploadProgress = 100
    /\ visualizationCharts = <<>>
    /\ typingText = <<>>
    /\ isTyping = FALSE
    /\ fullResponse = <<>>
    /\ now = 2
    /\ toast = NoToast
    /\ calls = [c \in Calls |->
            IF c = 1
            THEN [IdleCall EXCEPT !.pc = "awaiting", !.content = Insight,
                      !.sentAt = 2, !.userPos = 2]
            ELSE IdleCall]
    /\ nextCall = 2
    /\ gap = 0
    /\ scrolls = {}
    /\ upload = [pc |-> "idle", file |-> FileCsv, interval |-> FALSE,
                 hideTimer |-> FALSE]

ParseNext ==
    \/ \E c \in Calls :
            /\ calls[c].pc = "awaiting"
            /\ \E analysis \in ParseReplies, delay \in Delays :
                    ChatSucceeds(c, analysis, delay)
    \/ \E c \in Calls : typeNextCharacter(c)

ParseSpec == ParseInit /\ [][ParseNext]_vars

\* what the parser made of the reply of call c
Replied(c) == calls[c].pc \in {"typing", "done"}
ParsedCharts(c) ==
    IF messages[calls[c].replyPos].charts = None THEN <<>>
    ELSE messages[calls[c].replyPos].charts[1]
DisplayText(c) == calls[c].text

\* the replies whose make-up is known: prose and chart blocks
ParseCases ==
    {[pieces |-> pieces, raw |-> Flatten(pieces)] :
        pieces \in PieceSeqs(ProsePieces \cup BlockPieces)}

\* the chart of a block with a good body
ChartOfBlock(block) == IF block = BarBlock THEN BarChart ELSE LineChart

RECURSIVE ChartsOfPieces(_)
ChartsOfPieces(pieces) ==
    IF pieces = <<>> THEN <<>>
    ELSE (IF Head(pieces) \in GoodBlocks
          THEN <<ChartOfBlock(Head(pieces))>> ELSE <<>>)
         \o ChartsOfPieces(Tail(pieces))

RECURSIVE ProseOfPieces(_)
ProseOfPieces(pieces) ==
    IF pieces = <<>> THEN <<>>
    ELSE (IF Head(pieces) \in ProsePieces THEN Head(pieces) ELSE <<>>)
         \o ProseOfPieces(Tail(pieces))

BadCount(pieces) == Cardinality({i \in DOMAIN pieces : pieces[i] = BadBlock})

\* the clean-up of formatAIResponse that follows the removal of the blocks
Normalize(text) ==
    Trim(CleanRules(CollapseBreaks(RemoveEmptyBlocks(text, 1), 1), 1))

NoMarkers(text) ==
    /\ ~Contains(text, Fence)
    /\ ~Contains(text, <<"c", "h", "a", "r", "t", "-", "d", "a", "t", "a">>)

BadBlockDropsOnlyItself ==
    \A c \in Calls : Replied(c) =>
        \A case \in ParseCases :
            (case.raw = calls[c].analysis /\ BadCount(case.pieces) = 1) =>
                /\ ParsedCharts(c) = ChartsOfPieces(case.pieces)
                /\ DisplayText(c) = Normalize(ProseOfPieces(case.pieces))
                /\ NoMarkers(DisplayText(c))

\* a reply with prose, a bad block and a line chart has been parsed
BadBlockWitness ==
    /\ Replied(1)
    /\ calls[1].analysis = Flatten(<<<<"a">>, BadBlock, LineBlock>>)
    /\ ParsedCharts(1) = <<LineChart>>
    /\ DisplayText(1) = <<"a">>

(***************************************************************************)
(* C20: for a raw reply without a chart block (here: without the opening   *)
(* marker of one) the parser returns no chart, the display text is the     *)
(* cleaned-up input, and parsing the display text again returns the same   *)
(* display text and no chart.                                              *)
(***************************************************************************)
BlockFreeParseIsIdempotent ==
    \A c \in Calls :
        (Replied(c) /\ ~Contains(calls[c].analysis, ChartOpen)) =>
            /\ ParsedCharts(c) = <<>>
            /\ DisplayText(c) = Normalize(calls[c].analysis)
            /\ formatAIResponse(DisplayText(c)) = DisplayText(c)
            /\ parseChartDataFromResponse(DisplayText(c)) = <<>>

(***************************************************************************)
(* Charts as the backend may describe them: one send is in flight and its  *)
(* reply is prose followed by one chart block whose body is any of the     *)
(* documents JSON.parse accepts                                            *)
(***************************************************************************)
ChartReplies ==
    {Prose(n) \o <<NL>> \o ChartBlock(doc) : n \in 0..MaxLen,
        doc \in {FullDoc, ScatterDoc, ShortDoc, NoSeriesDoc}}

ChartNext ==
    \/ \E c \in Calls :
            /\ calls[c].pc = "awaiting"
            /\ \E analysis \in ChartReplies, delay \in Delays :
                    ChatSucceeds(c, analysis, delay)
    \/ \E c \in Calls : typeNextCharacter(c)

ChartSpec == ParseInit /\ [][ChartNext]_vars

\* the Chart invariant of the data model; a field the document leaves out
\* is undefined on the parsed value
ChartInvariant(chart) ==
    /\ "datasets" \in DOMAIN chart
    /\ "labels" \in DOMAIN chart
    /\ Len(chart.datasets) > 0
    /\ chart.type # "scatter" =>
            \A i \in 1..Len(chart.datasets) :
                Len(chart.datasets[i].data) = Len(chart.labels)

(***************************************************************************)
(* C21: every chart in the visualization slot or attached to a message     *)
(* satisfies the Chart invariant: its datasets are a non-empty sequence    *)
(* and, unless it is a scatter chart, every dataset has as many values as  *)
(* there are labels.                                                       *)
(***************************************************************************)
ChartsAreWellFormed ==
    /\ \A i \in 1..Len(visualizationCharts) :
            ChartInvariant(visualizationCharts[i])
    /\ \A m \in 1..Len(messages) :
            messages[m].charts # None =>
                \A i \in 1..Len(messages[m].charts[1]) :
                    ChartInvariant(messages[m].charts[1][i])

(***************************************************************************)
(* Finalized assistant messages without charts.                            *)
(***************************************************************************)

\* an assistant message that went through a reveal, is finalized and
\* carries no charts
FinalizedPlain(message) ==
    /\ message.role = "assistant"
    /\ message.isTyping = Some(FALSE)
    /\ message.charts = None

(***************************************************************************)
(* C22 as stated: for every assistant message whose reply contained no     *)
(* charts, once its reveal is finalized its formattedContent equals its    *)
(* content.                                                                *)
(***************************************************************************)
FormattedEqualsContent ==
    \A i \in 1..Len(messages) :
        FinalizedPlain(messages[i])
            => messages[i].formattedContent = Some(messages[i].content)

(***************************************************************************)
(* C22 amended: for every assistant message whose reply contained no       *)
(* charts, once its reveal is finalized its formattedContent equals the    *)
(* result of formatAIResponse on its content.                              *)
(***************************************************************************)
FormattedIsCleanedContent ==
    \A i \in 1..Len(messages) :
        FinalizedPlain(messages[i])
            => messages[i].formattedContent =
                    Some(formatAIResponse(messages[i].content))

\* a finalized message holds the raw reply with its trailing line break and
\* the display text without it
FormattedIsCleanedWitness ==
    \E i \in 1..Len(messages) :
        /\ FinalizedPlain(messages[i])
        /\ messages[i].content = ReplyPlain
        /\ messages[i].formattedContent = Some(<<"D", "o", "n", "e">>)

(***************************************************************************)
(* The typing loop alone, over display texts on both sides of every length *)
(* at which the chunk size changes.                                        *)
(***************************************************************************)

\* simulateTyping(text, callback) has run up to its first setTimeout for a
\* reply that is text itself
TickInit ==
    /\ activeFileId = "f1"
    /\ fileData = Some(UploadResponseOf(FileCsv))
    /\ messages = <<Welcome(1), UserMessage(Insight, 2), Placeholder(3)>>
    /\ newMessage = <<>>
    /\ isUploading = FALSE
    /\ isSending = FALSE
    /\ uploadProgress = 100
    /\ visualizationCharts = <<>>
    /\ typingText = <<>>
    /\ isTyping = TRUE
    /\ now = 3
    /\ toast = NoToast
    /\ \E text \in {[i \in 1..n |-> "a"] :
                        n \in (0..MaxLen) \cup {499, 500, 501, 1000, 1001,
                                                2000, 2001}} :
            /\ fullResponse = text
            /\ calls = [c \in Calls |->
                    IF c = 1
                    THEN [IdleCall EXCEPT !.pc = "typing",
                              !.content = Insight, !.sentAt = 2,
                              !.analysis = text, !.text = text,
                              !.timestamp = 3, !.userPos = 2, !.replyPos = 3]
                    ELSE IdleCall]
    /\ nextCall = 2
    /\ gap = 0
    /\ scrolls = {}
    /\ upload = [pc |-> "idle", file |-> FileCsv, interval |-> FALSE,
                 hideTimer |-> FALSE]

TickNext == \E c \in Calls : typeNextCharacter(c)

TickSpec == TickInit /\ [][TickNext]_vars

\* typeNextCharacter ran in the closure of call c
Ticks(c) == calls[c].pc = "typing" /\ calls'[c] # calls[c]

(***************************************************************************)
(* C24: during a reveal of a text of length L each tick advances the       *)
(* cursor by min(chunk, L - cursor), where chunk is 3 for L <= 500, 5 for  *)
(* 500 < L <= 1000, 8 for 1000 < L <= 2000 and 10 for L > 2000.  The       *)
(* cursor strictly increases on every such tick and never exceeds L; it    *)
(* is k * chunk after k advances while below L, so it reaches L with       *)
(* advance number ceil(L / chunk), and the reveal ends on the tick that    *)
(* finds the cursor equal to L and on no other.                            *)
(***************************************************************************)
TickAdvancesByChunk ==
    [][\A c \in Calls :
        Ticks(c) =>
            LET L == Len(calls[c].text)
                cursor == calls[c].index
                chunk == IF L <= 500 THEN 3
                         ELSE IF L <= 1000 THEN 5
                         ELSE IF L <= 2000 THEN 8
                         ELSE 10
                advances == cursor \div chunk
                ceiling == (L + chunk - 1) \div chunk
            IN /\ cursor <= L
               /\ cursor < L =>
                    /\ cursor = advances * chunk
                    /\ advances < ceiling
                    /\ calls'[c].index = cursor + Min(chunk, L - cursor)
                    /\ calls'[c].index > cursor
                    /\ calls'[c].index <= L
                    /\ calls'[c].index = L <=> advances + 1 = ceiling
                    /\ calls'[c].pc = "typing"
                    /\ typingText' =
                            typingText \o SubSeq(calls[c].text, cursor + 1,
                                                 calls'[c].index)
               /\ cursor = L =>
                    /\ calls'[c].pc = "done"
                    /\ calls'[c].index = L]_vars

\* a text of 2001 characters was revealed in chunks of 10 and is finalized
TickAdvancesWitness ==
    \E c \in Calls :
        /\ calls[c].pc = "done"
        /\ Len(calls[c].text) = 2001
        /\ calls[c].index = 2001
        /\ Len(typingText) = 2001
        /\ messages[calls[c].replyPos].isTyping = Some(FALSE)

(***************************************************************************)
(* C25: while a message is revealing, typingText, the text shown for it,   *)
(* is a prefix of that message's own display text whose length is the      *)
(* reveal cursor: text of another reply is never mixed into it.            *)
(***************************************************************************)
TypingTextIsOwnPrefix ==
    \A c \in ActiveReveals :
        /\ calls[c].index <= Len(calls[c].text)
        /\ typingText = SubSeq(calls[c].text, 1, calls[c].index)

(***************************************************************************)
(* C26: isSending is true exactly while a chat request is in flight.       *)
(***************************************************************************)
SendingIffInFlight == isSending <=> InFlight # {}

(***************************************************************************)
(* The chat round trips of a session: after the upload one send is in      *)
(* flight, further sends come from the insight badges, and every request   *)
(* is eventually resolved or rejected.                                     *)
(***************************************************************************)

\* the awaited sendChatMessage of call c settles
Completes(c) ==
    \/ \E delay \in Delays : ChatFails(c, delay)
    \/ \E analysis \in Replies, delay \in Delays :
            ChatSucceeds(c, analysis, delay)

RoundTripNext ==
    \/ \E insight \in suggestedInsights : handleInsightClick(insight)
    \/ \E c \in Calls, analysis \in Replies, delay \in Delays :
            ChatSucceeds(c, analysis, delay)
    \/ \E c \in Calls, delay \in Delays : ChatFails(c, delay)
    \/ \E c \in Calls : typeNextCharacter(c)

\* every sendChatMessage promise settles
RoundTripSpec ==
    /\ ParseInit
    /\ [][RoundTripNext]_vars
    /\ \A c \in Calls : WF_vars(Completes(c))

\* the calls whose request has settled, the assistant messages other than
\* the welcome message, which is the first message, and the user messages
Settled == {c \in Calls : calls[c].pc \in {"typing", "done", "failed"}}
AssistantReplies ==
    {i \in 2..Len(messages) : messages[i].role = "assistant"}
UserMessages == {i \in 1..Len(messages) : messages[i].role = "user"}

\* a reveal placeholder / an apology message
IsPlaceholder(message) ==
    /\ message.role = "assistant"
    /\ message.isTyping = Some(TRUE)
    /\ message.content = <<>>
IsApology(message) ==
    /\ message.role = "assistant"
    /\ message.isTyping = None
    /\ message.content = ErrorMessage

(***************************************************************************)
(* C27: every accepted send is eventually followed by exactly one          *)
(* assistant message appended for it, when its request eventually          *)
(* completes: the step that settles the request appends one message, a     *)
(* reveal placeholder or an apology and not both, no other step appends    *)
(* an assistant message, and a settled request never settles again.  So    *)
(* the assistant messages other than the welcome message are as many as    *)
(* the settled requests and never more than the user messages.             *)
(***************************************************************************)
OneReplyPerSend ==
    /\ \A c \in Calls :
            (calls[c].pc = "awaiting") ~>
                (c \in Settled /\ calls[c].replyPos \in AssistantReplies)
    /\ [](/\ Cardinality(AssistantReplies) = Cardinality(Settled)
          /\ Cardinality(AssistantReplies) <= Cardinality(UserMessages))
    /\ [][/\ \A c \in Calls :
                (c \in InFlight /\ c \notin InFlight') =>
                    /\ Len(messages') = Len(messages) + 1
                    /\ SubSeq(messages', 1, Len(messages)) = messages
                    /\ calls'[c].replyPos = Len(messages')
                    /\ IsPlaceholder(messages'[Len(messages')])
                            # IsApology(messages'[Len(messages')])
          /\ Cardinality(AssistantReplies') > Cardinality(AssistantReplies)
                => \E c \in Calls : c \in InFlight /\ c \notin InFlight'
          /\ \A c \in Settled : c \in Settled']_vars

\* two sends were accepted; one was answered with an apology and the other
\* with a placeholder that has been finalized
OneReplyPerSendWitness ==
    /\ Cardinality(UserMessages) = 2
    /\ Cardinality(AssistantReplies) = 2
    /\ \E c, d \in Calls :
            /\ calls[c].pc = "failed"
            /\ IsApology(messages[calls[c].replyPos])
            /\ calls[d].pc = "done"
            /\ messages[calls[d].replyPos].isTyping = Some(FALSE)

(***************************************************************************)
(* What the transcript shows for a message.                                *)
(***************************************************************************)

\* the children of the message bubble: typingText while message.isTyping,
\* else formattedContent when the message is the assistant's and
\* formattedContent is truthy (neither undefined nor the empty string),
\* else content
Rendered(message) ==
    IF message.isTyping = Some(TRUE) THEN typingText
    ELSE IF /\ message.role = "assistant"
            /\ message.formattedContent # None
            /\ message.formattedContent # Some(<<>>)
         THEN message.formattedContent[1]
         ELSE message.content

(***************************************************************************)
(* C28: for every finalized assistant message the text rendered in the     *)
(* transcript is its display text, the reply with the chart-data blocks    *)
(* removed: no raw chart-data payload is shown, also when the reply        *)
(* consists only of chart blocks and the display text is empty.            *)
(***************************************************************************)
RendersDisplayText ==
    \A i \in 1..Len(messages) :
        (messages[i].role = "assistant" /\ messages[i].isTyping = Some(FALSE))
            => /\ Rendered(messages[i]) = messages[i].formattedContent[1]
               /\ ~Contains(Rendered(messages[i]), ChartOpen)

(***************************************************************************)
(* sendMessage as a function: called with any argument in any state of     *)
(* the component, without the guards of the form controls.                 *)
(***************************************************************************)

\* the arguments of sendMessage (<<>> for an omitted argument) and the
\* values of newMessage
SendTexts ==
    {<<>>, <<" ">>, <<NL>>, <<" ", NL>>, <<"\t", " ">>} \cup suggestedInsights

\* a chart reply to the first send has been revealed and finalized
SendInitAfterReply ==
    /\ activeFileId = "f1"
    /\ fileData = Some(UploadResponseOf(FileCsv))
    /\ messages = <<Welcome(1), UserMessage(Insight, 2),
                    [role |-> "assistant", content |-> ReplyChart,
                     formattedContent |-> Some(<<>>), timestamp |-> 3,
                     charts |-> Some(<<BarChart>>),
                     isTyping |-> Some(FALSE)]>>
    /\ newMessage = <<>>
    /\ isUploading = FALSE
    /\ isSending = FALSE
    /\ uploadProgress = 100
    /\ visualizationCharts = <<BarChart>>
    /\ typingText = <<>>
    /\ isTyping = FALSE
    /\ fullResponse = <<>>
    /\ now = 3
    /\ toast = NoToast
    /\ calls = [c \in Calls |->
            IF c = 1
            THEN [IdleCall EXCEPT !.pc = "done", !.content = Insight,
                      !.sentAt = 2, !.analysis = ReplyChart,
                      !.timestamp = 3, !.userPos = 2, !.replyPos = 3]
            ELSE IdleCall]
    /\ nextCall = 2
    /\ gap = 0
    /\ scrolls = {}
    /\ upload = [pc |-> "idle", file |-> FileCsv, interval |-> FALSE,
                 hideTimer |-> FALSE]

\* the upload has succeeded and nothing has been sent
SendInitAfterUpload ==
    /\ activeFileId = "f1"
    /\ fileData = Some(UploadResponseOf(FileCsv))
    /\ messages = <<Welcome(1)>>
    /\ newMessage = <<>>
    /\ isUploading = FALSE
    /\ isSending = FALSE
    /\ uploadProgress = 100
    /\ visualizationCharts = <<>>
    /\ typingText = <<>>
    /\ isTyping = FALSE
    /\ fullResponse = <<>>
    /\ now = 1
    /\ toast = NoToast
    /\ calls = [c \in Calls |-> IdleCall]
    /\ nextCall = 1
    /\ gap = 0
    /\ scrolls = {}
    /\ upload = [pc |-> "idle", file |-> FileCsv, interval |-> FALSE,
                 hideTimer |-> FALSE]

\* before any upload, right after it, or with a chart in the slot
SendInit == Init \/ SendInitAfterUpload \/ SendInitAfterReply

\* sendMessage(messageText) up to its return or its await
CallSendMessage(messageText) ==
    /\ SendMessage(messageText, newMessage)
    /\ toast' = NoToast
    /\ UNCHANGED chatFrame
    /\ UNCHANGED uploadVars
    /\ Renders({}, messages' # messages)

\* setNewMessage(t)
TypeText(t) ==
    /\ newMessage # t
    /\ newMessage' = t
    /\ toast' = NoToast
    /\ UNCHANGED <<messages, isSending, calls, nextCall, now>>
    /\ UNCHANGED chatFrame
    /\ UNCHANGED uploadVars
    /\ Renders({}, FALSE)

SendNext ==
    \/ \E messageText \in SendTexts : CallSendMessage(messageText)
    \/ \E t \in SendTexts : TypeText(t)
    \/ \E c \in Calls, delay \in Delays : ChatFails(c, delay)

SendSpec == SendInit /\ [][SendNext]_vars

(***************************************************************************)
(* C29: sendMessage invoked with empty or whitespace-only text, or while   *)
(* no dataset is active (activeFileId is null), is a no-op: no message is  *)
(* appended, no chat request is issued, and newMessage, isSending and      *)
(* visualizationCharts are unchanged.                                      *)
(***************************************************************************)
RejectedSendIsNoOp ==
    [][\A messageText \in SendTexts :
        (/\ CallSendMessage(messageText)
         /\ \/ Trim(IF messageText # <<>> THEN messageText
                    ELSE newMessage) = <<>>
            \/ activeFileId = Null)
            => UNCHANGED <<messages, calls, nextCall, newMessage, isSending,
                           visualizationCharts>>]_vars

\* white space has been typed while a request is in flight and a chart is in
\* the slot: sendMessage() returns early here
RejectedSendWitness ==
    /\ activeFileId # Null
    /\ newMessage # <<>>
    /\ Trim(newMessage) = <<>>
    /\ isSending
    /\ InFlight # {}
    /\ visualizationCharts # <<>>
    /\ ENABLED CallSendMessage(<<>>)

(***************************************************************************)
(* C30: a chat reply from which zero charts are parsed leaves              *)
(* visualizationCharts unchanged and its message carries no charts field;  *)
(* a reply with charts gives its message exactly the charts it publishes   *)
(* to the slot.  So the charts field of a message is either absent or a    *)
(* non-empty sequence.                                                     *)
(***************************************************************************)
ChartlessReplyKeepsSlot ==
    /\ [][\A c \in Calls :
            StartsReveal(c) =>
                LET charts == ChartsOf(calls'[c].analysis)
                    placeholder == messages'[calls'[c].replyPos]
                IN IF charts = <<>>
                   THEN /\ UNCHANGED visualizationCharts
                        /\ placeholder.charts = None
                   ELSE /\ placeholder.charts = Some(charts)
                        /\ placeholder.charts = Some(visualizationCharts')]_vars
    /\ [](\A i \in 1..Len(messages) :
            \/ messages[i].charts = None
            \/ /\ Len(messages[i].charts) = 1
               /\ Len(messages[i].charts[1]) > 0)

\* a reply without charts was handled after a reply with a chart: its
\* message has no charts field and the earlier chart is still in the slot
ChartlessReplyWitness ==
    \E c, d \in Calls :
        /\ calls[c].pc \in {"typing", "done"}
        /\ calls[d].pc \in {"typing", "done"}
        /\ calls[c].replyPos < calls[d].replyPos
        /\ calls[c].analysis = ReplyChart
        /\ calls[d].analysis = ReplyPlain
        /\ messages[calls[d].replyPos].charts = None
        /\ messages[calls[c].replyPos].charts = Some(<<BarChart>>)
        /\ visualizationCharts = <<BarChart>>

(***************************************************************************)
(* The conversation view: the position of the transcript and the runs of   *)
(* scrollToBottom.  The requests of the IntersectionObserver effect are    *)
(* not modelled: they are scheduled with the same closures as the ones of  *)
(* the auto-scroll effect.                                                 *)
(***************************************************************************)

\* scrollToBottom as created in a render whose isTyping was typing
scrollToBottom(typing) ==
    IF gap < 200 THEN gap' = 0
    ELSE IF typing THEN gap' = 0
    ELSE UNCHANGED gap

\* a callback given to requestAnimationFrame or setTimeout runs
RunScroll(request) ==
    /\ request \in scrolls
    /\ scrolls' = scrolls \ {request}
    /\ scrollToBottom(request.typing)
    /\ toast' = NoToast
    /\ UNCHANGED <<messages, newMessage, isSending, visualizationCharts,
                   typingText, isTyping, fullResponse, calls, nextCall, now>>
    /\ UNCHANGED uploadVars

\* the user scrolls the transcript
UserScrolls(distance) ==
    /\ activeFileId # Null
    /\ distance # gap
    /\ gap' = distance
    /\ toast' = NoToast
    /\ UNCHANGED scrolls
    /\ UNCHANGED <<messages, newMessage, isSending, visualizationCharts,
                   typingText, isTyping, fullResponse, calls, nextCall, now>>
    /\ UNCHANGED uploadVars

\* after the upload one send is in flight; the reply is revealed while the
\* user scrolls and the scheduled callbacks run
ScrollNext ==
    \/ \E c \in Calls :
            /\ calls[c].pc = "awaiting"
            /\ \E analysis \in RevealReplies, delay \in Delays :
                    ChatSucceeds(c, analysis, delay)
    \/ \E c \in Calls : typeNextCharacter(c)
    \/ \E request \in scrolls : RunScroll(request)
    \/ \E distance \in {0, 199, 200} : UserScrolls(distance)

ScrollSpec == ParseInit /\ [][ScrollNext]_vars

(***************************************************************************)
(* C23: an autoscroll is requested on every cursor advance of a reveal and *)
(* once more after the reveal is Done, and a run of scrollToBottom moves   *)
(* the view to the bottom only if the view was within 200 px of its bottom *)
(* edge or a reveal is in progress: when the user has scrolled further up  *)
(* and no reveal is in progress the scroll position is left unchanged.     *)
(***************************************************************************)
AutoScrollOnlyNearOrRevealing ==
    [][/\ \A c \in Calls :
            (Ticks(c) /\ calls'[c].index > calls[c].index)
                => ScrollRequest(calls[c].closureTyping, "frame") \in scrolls'
       /\ \A c \in Calls :
            FinishesReveal(c)
                => ScrollRequest(calls[c].closureTyping, "timeout")
                        \in scrolls'
       /\ \A request \in scrolls :
            RunScroll(request) =>
                /\ gap' \in {gap, 0}
                /\ (gap >= 200 /\ ~isTyping /\ ActiveReveals = {}
                        /\ Revealing = {}) => gap' = gap]_vars

====
